---- MODULE Spec2Model ----
(***************************************************************************)
(* Model of proscli/conductor.py: the depot registry commands (add-depot,  *)
(* rm-depot), the download command with its depot prompt, and the local    *)
(* mode commands (new, upgrade).                                           *)
(***************************************************************************)
EXTENDS Integers, Sequences, FiniteSets, TLC

(***************************************************************************)
(* Bounds of the model.                                                    *)
(***************************************************************************)
\* largest number of (identifier, depot) offers in one online listing
MaxOffers == 3
\* largest number of locally downloaded templates
MaxTemplates == 3

(***************************************************************************)
(* Values.                                                                 *)
(***************************************************************************)
Mainline == "purdueros-mainline"

DepotNames == {"alt", Mainline, "zeta"}

Versions == {"1.10.0", "1.2.0"}

TemplateNames == {"kernel", "libA"}

Registrars == {"github-releases"}

Locations == {"locA", "locB"}

None == [kind |-> "None"]

\* Python str values are compared by code point: the code points of every
\* string the model orders.
CodePoints ==
    ("alt" :> <<97, 108, 116>>)
    @@ ("purdueros-mainline" :>
          <<112, 117, 114, 100, 117, 101, 114, 111, 115, 45,
            109, 97, 105, 110, 108, 105, 110, 101>>)
    @@ ("zeta" :> <<122, 101, 116, 97>>)
    @@ ("1.10.0" :> <<49, 46, 49, 48, 46, 48>>)
    @@ ("1.2.0" :> <<49, 46, 50, 46, 48>>)
    @@ ("latest" :> <<108, 97, 116, 101, 115, 116>>)

RECURSIVE SeqLess(_, _)
SeqLess(s, t) ==
    IF s = <<>> THEN t # <<>>
    ELSE IF t = <<>> THEN FALSE
    ELSE IF Head(s) # Head(t) THEN Head(s) < Head(t)
    ELSE SeqLess(Tail(s), Tail(t))

\* a < b on Python strings
StrLess(a, b) == SeqLess(CodePoints[a], CodePoints[b])

\* str(i) and int(s) for the indices shown by the prompt
StrOfInt == (0 :> "0") @@ (1 :> "1") @@ (2 :> "2") @@ (3 :> "3") @@ (4 :> "4")

IntOfStr == ("0" :> 0) @@ ("1" :> 1) @@ ("2" :> 2) @@ ("3" :> 3) @@ ("4" :> 4)

\* str.lower() on the names the command is given
Lower(s) == IF s \in {"Kernel", "KERNEL", "kernel"} THEN "kernel" ELSE s

\* Python's 0-based seq[i]
At(seq, i) == seq[i + 1]

\* the sequences of length 1..n over S without repetition
RECURSIVE InjSeqs(_, _)
InjSeqs(S, n) ==
    IF n = 0 THEN {<<>>}
    ELSE LET shorter == InjSeqs(S, n - 1)
         IN  shorter \cup
             {Append(s, x) : <<s, x>> \in
                 {p \in shorter \X S :
                     /\ Len(p[1]) = n - 1
                     /\ \A k \in 1..Len(p[1]) : p[1][k] # p[2]}}


(***************************************************************************)
(* State.                                                                  *)
(***************************************************************************)
VARIABLES
    registry,         \* the registered depots (utils.get_depot_configs)
    pc,               \* "idle", "prompt" (click.prompt is waiting) or "done"
    command,          \* the command that ran last
    args,             \* its arguments as given on the command line
    catalog,          \* download: the listing the catalog source returns
    name,             \* download: name after lines 125-130
    version,          \* download: version after lines 125-130
    identifier,       \* download: the identifier selected
    descriptors,      \* download: the descriptors of that identifier
    options_table,    \* download: the table the prompt shows
    prompt,           \* download: the choices and default given to click.prompt
    result,           \* download: the answer given to the prompt
    descriptor,       \* download: the descriptor selected
    templates,        \* new/upgrade: local.get_local_templates
    kernel_version,   \* new/upgrade
    depot_registrar,  \* new/upgrade
    template,         \* new/upgrade
    outcome,          \* how the command ended
    calls             \* calls made to download / create_project / upgrade_project

vars == <<registry, pc, command, args, catalog, name, version, identifier,
          descriptors, options_table, prompt, result, descriptor, templates,
          kernel_version, depot_registrar, template, outcome, calls>>

(***************************************************************************)
(* The online listing: a dict from Identifier to the list of descriptors   *)
(* offering it, one per depot.                                             *)
(***************************************************************************)
Identifiers == [name : TemplateNames, version : Versions]

\* a depot appears at most once per identifier, and every identifier of a
\* listing is offered by some depot
DescriptorLists ==
    {[k \in 1..Len(s) |-> [depot |-> s[k]]] :
        s \in InjSeqs(DepotNames, Cardinality(DepotNames)) \ {<<>>}}

RECURSIVE Offers(_)
Offers(listing) ==
    IF DOMAIN listing = {} THEN 0
    ELSE LET i == CHOOSE j \in DOMAIN listing : TRUE
         IN  Len(listing[i]) + Offers([j \in DOMAIN listing \ {i} |-> listing[j]])

Catalogs ==
    {c \in UNION {[S -> DescriptorLists] : S \in SUBSET Identifiers} :
        Offers(c) <= MaxOffers}

\* [d.depot.config.name for d in ds]
DepotNamesOf(ds) == {ds[k].depot : k \in 1..Len(ds)}

\* listing.items(); the keys of one listing are distinct identifiers, and every
\* use below selects by a key that is unique among them.
RECURSIVE Items(_)
Items(listing) ==
    IF DOMAIN listing = {} THEN <<>>
    ELSE LET i == CHOOSE j \in DOMAIN listing : TRUE
             rest == [j \in DOMAIN listing \ {i} |-> listing[j]]
         IN  <<[id |-> i, ds |-> listing[i]]>> \o Items(rest)

(***************************************************************************)
(* download, lines 119-202.                                                *)
(***************************************************************************)
NormalizeName(n) ==
    IF Lower(n) = "kernel" THEN "kernel"
    ELSE IF n = "latest" THEN "kernel"
    ELSE n

NormalizeVersion(n, v) ==
    IF Lower(n) # "kernel" /\ n = "latest" /\ v = "kernel" THEN "latest" ELSE v

FetchesListing(v, depot, no_check) ==
    v = "latest" \/ depot = "auto" \/ ~no_check

FilterByName(listing, n) ==
    [i \in {j \in DOMAIN listing : j.name = n} |-> listing[i]]

AllDepotNames(listing) ==
    UNION {DepotNamesOf(listing[i]) : i \in DOMAIN listing}

\* the descriptors of one identifier that are on depot
OnDepot(ds, depot) == SelectSeq(ds, LAMBDA d : d.depot = depot)

\* keeps the identifiers the depot does not offer, with no descriptor left
FilterDescriptorsOnly(listing, depot) ==
    [i \in DOMAIN listing |-> OnDepot(listing[i], depot)]

FilterByDepot(listing, depot) ==
    [i \in {j \in DOMAIN listing : depot \in DepotNamesOf(listing[j])} |->
        OnDepot(listing[i], depot)]

\* sorted(items, key=lambda kvp: kvp[0].version): a stable insertion sort
RECURSIVE InsertByVersion(_, _)
InsertByVersion(x, sorted) ==
    IF sorted = <<>> THEN <<x>>
    ELSE IF StrLess(x.id.version, Head(sorted).id.version)
         THEN <<x>> \o sorted
         ELSE <<Head(sorted)>> \o InsertByVersion(x, Tail(sorted))

RECURSIVE SortedByVersion(_)
SortedByVersion(items) ==
    IF items = <<>> THEN <<>>
    ELSE InsertByVersion(items[Len(items)],
                         SortedByVersion(SubSeq(items, 1, Len(items) - 1)))

\* popitem(last=False): the first pair instead of the last
PopFirstItem(sorted) == sorted[1]

\* OrderedDict(...).popitem(): the last pair
PopItem(sorted) == sorted[Len(sorted)]

LatestItem(listing) == PopItem(SortedByVersion(Items(listing)))

ExactItem(listing, v) ==
    Head(SelectSeq(Items(listing), LAMBDA e : e.id.version = v))

\* descriptors.index(desc), 0-based
IndexOf(ds, desc) == (CHOOSE k \in 1..Len(ds) :
                         /\ ds[k] = desc
                         /\ \A j \in 1..(k - 1) : ds[j] # desc) - 1

\* sorted(rows, key=lambda l: l[1]): a stable insertion sort
RECURSIVE InsertByDepotName(_, _)
InsertByDepotName(row, sorted) ==
    IF sorted = <<>> THEN <<row>>
    ELSE IF StrLess(row[2], Head(sorted)[2])
         THEN <<row>> \o sorted
         ELSE <<Head(sorted)>> \o InsertByDepotName(row, Tail(sorted))

\* the rows in the order of the descriptors, unsorted
RowsAsGiven(rows) == rows

RECURSIVE SortedByDepotName(_)
SortedByDepotName(rows) ==
    IF rows = <<>> THEN <<>>
    ELSE InsertByDepotName(rows[Len(rows)],
                           SortedByDepotName(SubSeq(rows, 1, Len(rows) - 1)))

OptionsTable(ds) ==
    SortedByDepotName([k \in 1..Len(ds) |-> <<IndexOf(ds, ds[k]), ds[k].depot>>])

\* the default the prompt offers
PromptDefault(table) == At(table, 0)[2]

IndexChoices(table) == {StrOfInt[table[k][1]] : k \in 1..Len(table)}

NameChoices(table) == {table[k][2] : k \in 1..Len(table)}

\* click.Choice(...): the answers the prompt accepts
Choices(table) == IndexChoices(table) \cup NameChoices(table)

\* lines 181-184
SelectFromPrompt(ds, table, answer) ==
    IF answer \in IndexChoices(table)
    THEN Head(OnDepot(ds, At(table, IntOfStr[answer])[2]))
    ELSE Head(OnDepot(ds, answer))

\* line 171
MainlinePreferred(n, depot, ds) ==
    n = "kernel" /\ depot = "auto" /\ Mainline \in DepotNamesOf(ds)


\* utils.get_depot_config(name=depot): the registered depots of that name
GetDepotConfig(reg, depot) == {d \in reg : d.name = depot}

\* The values of the locals when the command stops: at an abort, at an
\* exception, at the prompt, or with a descriptor selected (lines 125-196).
Stopped(n, v, how) ==
    [pc |-> "done", outcome |-> how, name |-> n, version |-> v,
     identifier |-> None, descriptors |-> <<>>, options_table |-> <<>>,
     prompt |-> None, descriptor |-> None]

AtIdentifier(n, v, how, item) ==
    [pc |-> "done", outcome |-> how, name |-> n, version |-> v,
     identifier |-> item.id, descriptors |-> item.ds, options_table |-> <<>>,
     prompt |-> None, descriptor |-> None]

AtPrompt(n, v, item) ==
    [pc |-> "prompt", outcome |-> "Prompting", name |-> n, version |-> v,
     identifier |-> item.id, descriptors |-> item.ds,
     options_table |-> OptionsTable(item.ds),
     prompt |-> [choices |-> Choices(OptionsTable(item.ds)),
                 default |-> PromptDefault(OptionsTable(item.ds))],
     descriptor |-> None]

Selected(n, v, id, ds, desc) ==
    [pc |-> "done", outcome |-> "Selected", name |-> n, version |-> v,
     identifier |-> id, descriptors |-> ds, options_table |-> <<>>,
     prompt |-> None, descriptor |-> desc]

\* lines 165-190
SelectDescriptor(n, v, depot, item) ==
    IF Len(item.ds) = 0 THEN AtIdentifier(n, v, "VersionNotFound", item)
    ELSE IF Len(item.ds) > 1
    THEN IF MainlinePreferred(n, depot, item.ds)
         THEN Selected(n, v, item.id, item.ds,
                       [kind |-> "list", items |-> OnDepot(item.ds, Mainline)])
         ELSE AtPrompt(n, v, item)
    ELSE IF depot = "auto" \/ At(item.ds, 0).depot = depot
    THEN Selected(n, v, item.id, item.ds,
                  [kind |-> "TemplateDescriptor", depot |-> At(item.ds, 0).depot])
    ELSE AtIdentifier(n, v, "NoDepot", item)

\* lines 154-162
SelectIdentifier(n, v, depot, listing) ==
    IF v = "latest"
    THEN SelectDescriptor(n, v, depot, LatestItem(listing))
    ELSE IF v \notin {i.version : i \in DOMAIN listing}
    THEN Stopped(n, v, "VersionNotFound")
    ELSE SelectDescriptor(n, v, depot, ExactItem(listing, v))

\* the requested depot is neither checked nor filtered for
SelectDepotUnchecked(n, v, depot, listing) ==
    SelectIdentifier(n, v, depot, listing)

\* lines 144-150
SelectDepot(n, v, depot, listing) ==
    IF depot # "auto"
    THEN IF depot \notin AllDepotNames(listing)
         THEN Stopped(n, v, "DepotMismatch")
         ELSE SelectIdentifier(n, v, depot, FilterByDepot(listing, depot))
    ELSE SelectIdentifier(n, v, depot, listing)

\* lines 191-196
Unchecked(n, v, depot, reg) ==
    IF GetDepotConfig(reg, depot) = {}
    THEN Stopped(n, v, "DepotNotRegistered")
    ELSE Selected(n, v, [name |-> n, version |-> v], <<>>,
                  [kind |-> "TemplateDescriptor", depot |-> depot])

\* lines 125-196
Resolve(name0, version0, depot, no_check, cat, reg) ==
    LET n == NormalizeName(name0)
        v == NormalizeVersion(name0, version0)
    IN  IF FetchesListing(v, depot, no_check)
        THEN IF DOMAIN FilterByName(cat, n) = {}
             THEN Stopped(n, v, "NotFound")
             ELSE SelectDepot(n, v, depot, FilterByName(cat, n))
        ELSE Unchecked(n, v, depot, reg)

\* lines 198-202: descriptor.depot on a list raises AttributeError
DownloadOutcome(desc) ==
    IF desc.kind = "TemplateDescriptor" THEN "Downloaded" ELSE "AttributeError"

DownloadCalls(id, desc) ==
    IF desc.kind = "TemplateDescriptor"
    THEN <<[op |-> "download", identifier |-> id, depot |-> desc.depot]>>
    ELSE <<>>

RequestNames == {"kernel", "Kernel", "latest", "libA"}

RequestVersions == Versions \cup {"latest", "kernel"}

RequestDepots == DepotNames \cup {"auto"}

\* the command line of download and the listing the catalog source returns
Download(name0, version0, depot, no_check, cat) ==
    /\ pc = "idle"
    /\ LET r == Resolve(name0, version0, depot, no_check, cat, registry)
       IN  /\ pc' = r.pc
           /\ name' = r.name
           /\ version' = r.version
           /\ identifier' = r.identifier
           /\ descriptors' = r.descriptors
           /\ options_table' = r.options_table
           /\ prompt' = r.prompt
           /\ descriptor' = r.descriptor
           /\ outcome' = IF r.outcome = "Selected"
                         THEN DownloadOutcome(r.descriptor)
                         ELSE r.outcome
           /\ calls' = IF r.outcome = "Selected"
                       THEN calls \o DownloadCalls(r.identifier, r.descriptor)
                       ELSE calls
    /\ command' = "download"
    /\ args' = [name |-> name0, version |-> version0, depot |-> depot,
                no_check |-> no_check]
    /\ catalog' = cat
    /\ result' = None
    /\ UNCHANGED <<registry, templates, kernel_version, depot_registrar, template>>

\* the user answers the prompt with a displayed index or a depot name
\* (click.Choice accepts nothing else), lines 179-184 and 198-202
AnswerPrompt(answer) ==
    /\ pc = "prompt"
    /\ answer \in prompt.choices
    /\ LET d == SelectFromPrompt(descriptors, options_table, answer)
           desc == [kind |-> "TemplateDescriptor", depot |-> d.depot]
       IN  /\ descriptor' = desc
           /\ outcome' = DownloadOutcome(desc)
           /\ calls' = calls \o DownloadCalls(identifier, desc)
    /\ result' = [answer |-> answer]
    /\ pc' = "done"
    /\ UNCHANGED <<registry, command, args, catalog, name, version, identifier,
                   descriptors, options_table, prompt, templates, kernel_version,
                   depot_registrar, template>>

\* the user accepts the default the prompt offers
AcceptDefault ==
    /\ pc = "prompt"
    /\ LET answer == prompt.default
           d == SelectFromPrompt(descriptors, options_table, answer)
           desc == [kind |-> "TemplateDescriptor", depot |-> d.depot]
       IN  /\ descriptor' = desc
           /\ outcome' = DownloadOutcome(desc)
           /\ calls' = calls \o DownloadCalls(identifier, desc)
           /\ result' = [answer |-> answer]
    /\ pc' = "done"
    /\ UNCHANGED <<registry, command, args, catalog, name, version, identifier,
                   descriptors, options_table, prompt, templates, kernel_version,
                   depot_registrar, template>>

\* the process ends; the next command starts from the saved registry alone
Exit ==
    /\ pc = "done"
    /\ pc' = "idle"
    /\ command' = "none"
    /\ args' = None
    /\ catalog' = <<>>
    /\ name' = ""
    /\ version' = ""
    /\ identifier' = None
    /\ descriptors' = <<>>
    /\ options_table' = <<>>
    /\ prompt' = None
    /\ result' = None
    /\ descriptor' = None
    /\ templates' = <<>>
    /\ kernel_version' = ""
    /\ depot_registrar' = ""
    /\ template' = None
    /\ outcome' = "none"
    /\ calls' = <<>>
    /\ UNCHANGED registry

(***************************************************************************)
(* add-depot and rm-depot, lines 38-77.                                    *)
(***************************************************************************)
RegisteredNames(reg) == {d.name : d \in reg}

\* os.path.isdir(os.path.join(ctx.obj.pros_cfg.directory, value)): a depot
\* keeps its configuration in the directory of its name
DepotDirExists(reg, value) == value \in RegisteredNames(reg)

\* validate_name, lines 38-45; confirmed is the answer to click.confirm
ValidateName(reg, value, confirmed) ==
    IF DepotDirExists(reg, value)
    THEN IF value = Mainline THEN "BadParameter"
         ELSE IF ~confirmed THEN "Aborted"
         ELSE "ok"
    ELSE "ok"

\* providers.DepotConfig(name=..., root_dir=...): saves the configuration in
\* the directory of that name, replacing the one that was there
SaveDepotConfig(reg, depot) ==
    {d \in reg : d.name # depot.name} \cup {depot}

\* the guard of rm-depot left out
RemoveNeverRejected(value) == FALSE

\* lines 72-73
RemoveRejected(value) == value = Mainline

\* lines 75-77
DeleteDepots(reg, value) == {d \in reg : d.name # value}

AddDepot(value, registrar, location, confirmed) ==
    /\ pc = "idle"
    /\ outcome' = IF ValidateName(registry, value, confirmed) = "ok"
                  THEN "Added"
                  ELSE ValidateName(registry, value, confirmed)
    /\ registry' = IF ValidateName(registry, value, confirmed) = "ok"
                   THEN SaveDepotConfig(registry,
                            [name |-> value, registrar |-> registrar,
                             location |-> location])
                   ELSE registry
    /\ pc' = "done"
    /\ command' = "add-depot"
    /\ args' = [name |-> value, registrar |-> registrar, location |-> location,
                confirmed |-> confirmed]
    /\ UNCHANGED <<catalog, name, version, identifier, descriptors,
                   options_table, prompt, result, descriptor, templates,
                   kernel_version,
                   depot_registrar, template, calls>>

RemoveDepot(value) ==
    /\ pc = "idle"
    /\ outcome' = IF RemoveRejected(value) THEN "BadParameter" ELSE "Removed"
    /\ registry' = IF RemoveRejected(value) THEN registry
                   ELSE DeleteDepots(registry, value)
    /\ pc' = "done"
    /\ command' = "rm-depot"
    /\ args' = [name |-> value]
    /\ UNCHANGED <<catalog, name, version, identifier, descriptors,
                   options_table, prompt, result, descriptor, templates,
                   kernel_version,
                   depot_registrar, template, calls>>

(***************************************************************************)
(* new and upgrade, lines 211-240 and 258-288.                             *)
(***************************************************************************)
\* a locally downloaded kernel template
LocalTemplates == [version : Versions, depot_registrar : DepotNames]

TemplateLists == InjSeqs(LocalTemplates, MaxTemplates)

\* the check for an empty template list left out
NeverNoTemplates(tmpls) == FALSE

\* not templates or len(templates) == 0
NoTemplates(tmpls) == tmpls = <<>>

\* value is 'literal': the two are the same object only if they are equal
\* strings, and then only if the interpreter shares the object
IsLiteral(value, literal, same_object) == value = literal /\ same_object

\* sorted(templates, key=lambda t: t.version): a stable insertion sort
RECURSIVE InsertTemplate(_, _)
InsertTemplate(t, sorted) ==
    IF sorted = <<>> THEN <<t>>
    ELSE IF StrLess(t.version, Head(sorted).version)
         THEN <<t>> \o sorted
         ELSE <<Head(sorted)>> \o InsertTemplate(t, Tail(sorted))

RECURSIVE SortedTemplates(_)
SortedTemplates(tmpls) ==
    IF tmpls = <<>> THEN <<>>
    ELSE InsertTemplate(tmpls[Len(tmpls)],
                        SortedTemplates(SubSeq(tmpls, 1, Len(tmpls) - 1)))

\* line 219
LatestLocalVersion(tmpls) == At(SortedTemplates(tmpls), 0).version

WithVersion(tmpls, v) == SelectSeq(tmpls, LAMBDA t : t.version = v)

WithRegistrar(tmpls, r) == SelectSeq(tmpls, LAMBDA t : t.depot_registrar = r)

\* t.depot of a local template
TemplateDepot(t) == t.depot_registrar

\* lines 228-231
AutoRegistrar(tmpls) ==
    IF Mainline \in {tmpls[k].depot_registrar : k \in 1..Len(tmpls)}
    THEN Mainline
    ELSE TemplateDepot(At(tmpls, 0))

LocalStopped(how, kv, dr) ==
    [outcome |-> how, kernel_version |-> kv, depot_registrar |-> dr,
     template |-> None]

\* lines 233-240: depot_registrar is bound only on the auto path
PickTemplate(tmpls, kv, auto, dr) ==
    IF ~auto THEN LocalStopped("NameError", kv, "")
    ELSE IF WithRegistrar(tmpls, dr) = <<>>
    THEN LocalStopped("IndexError", kv, dr)
    ELSE [outcome |-> "Created", kernel_version |-> kv, depot_registrar |-> dr,
          template |-> At(WithRegistrar(tmpls, dr), 0)]

\* lines 221-232
PickRegistrar(tmpls, kv, auto) ==
    IF auto
    THEN IF WithVersion(tmpls, kv) = <<>>
         THEN LocalStopped("NoTemplatesForVersion", kv, "")
         ELSE PickTemplate(WithVersion(tmpls, kv), kv, auto,
                           AutoRegistrar(WithVersion(tmpls, kv)))
    ELSE PickTemplate(WithVersion(tmpls, kv), kv, auto, "")

\* lines 212-240
LocalResolve(kernel, depot, same_kernel, same_depot, tmpls) ==
    IF NoTemplates(tmpls) THEN LocalStopped("NoLocalTemplate", "", "")
    ELSE IF IsLiteral(kernel, "latest", same_kernel)
    THEN IF tmpls = <<>> THEN LocalStopped("IndexError", kernel, "")
         ELSE PickRegistrar(tmpls, LatestLocalVersion(tmpls),
                            IsLiteral(depot, "auto", same_depot))
    ELSE PickRegistrar(tmpls, kernel, IsLiteral(depot, "auto", same_depot))

LocalCalls(op, r) ==
    IF r.outcome = "Created" THEN <<[op |-> op, identifier |-> r.template]>>
    ELSE <<>>

\* one run of new or of upgrade: the two differ in the call they end with
LocalCommand(cmd, op, kernel, depot, same_kernel, same_depot, tmpls) ==
    /\ pc = "idle"
    /\ LET r == LocalResolve(kernel, depot, same_kernel, same_depot, tmpls)
       IN  /\ outcome' = r.outcome
           /\ kernel_version' = r.kernel_version
           /\ depot_registrar' = r.depot_registrar
           /\ template' = r.template
           /\ calls' = calls \o LocalCalls(op, r)
    /\ pc' = "done"
    /\ command' = cmd
    /\ args' = [kernel |-> kernel, depot |-> depot,
                kernel_is_literal |-> IsLiteral(kernel, "latest", same_kernel),
                depot_is_literal |-> IsLiteral(depot, "auto", same_depot)]
    /\ templates' = tmpls
    /\ UNCHANGED <<registry, catalog, name, version, identifier, descriptors,
                   options_table, prompt, result, descriptor>>

New(kernel, depot, same_kernel, same_depot, tmpls) ==
    LocalCommand("new", "create_project", kernel, depot, same_kernel,
                 same_depot, tmpls)

Upgrade(kernel, depot, same_kernel, same_depot, tmpls) ==
    LocalCommand("upgrade", "upgrade_project", kernel, depot, same_kernel,
                 same_depot, tmpls)

(***************************************************************************)
(* Specifications: one per group of commands.                              *)
(***************************************************************************)
\* the built-in depot and one depot the user added
InitialRegistry ==
    {[name |-> Mainline, registrar |-> "github-releases", location |-> "locA"],
     [name |-> "alt", registrar |-> "github-releases", location |-> "locB"]}

Init ==
    /\ registry = InitialRegistry
    /\ pc = "idle"
    /\ command = "none"
    /\ args = None
    /\ catalog = <<>>
    /\ name = ""
    /\ version = ""
    /\ identifier = None
    /\ descriptors = <<>>
    /\ options_table = <<>>
    /\ prompt = None
    /\ result = None
    /\ descriptor = None
    /\ templates = <<>>
    /\ kernel_version = ""
    /\ depot_registrar = ""
    /\ template = None
    /\ outcome = "none"
    /\ calls = <<>>

NextDownload ==
    \/ /\ pc = "idle"
       /\ \E name0 \in RequestNames, version0 \in RequestVersions,
             depot \in RequestDepots, no_check \in BOOLEAN, cat \in Catalogs :
             Download(name0, version0, depot, no_check, cat)
    \/ /\ pc = "prompt"
       /\ \E answer \in prompt.choices : AnswerPrompt(answer)
    \/ AcceptDefault
    \/ Exit

SpecDownload == Init /\ [][NextDownload]_vars

NextRegistry ==
    \/ \E value \in DepotNames, registrar \in Registrars,
          location \in Locations, confirmed \in BOOLEAN :
          AddDepot(value, registrar, location, confirmed)
    \/ \E value \in DepotNames : RemoveDepot(value)
    \/ Exit

SpecRegistry == Init /\ [][NextRegistry]_vars

NextLocal ==
    \/ /\ pc = "idle"
       /\ \E kernel \in Versions \cup {"latest"}, depot \in RequestDepots,
             same_kernel \in BOOLEAN, same_depot \in BOOLEAN,
             tmpls \in TemplateLists :
             New(kernel, depot, same_kernel, same_depot, tmpls)
    \/ /\ pc = "idle"
       /\ \E kernel \in Versions \cup {"latest"}, depot \in RequestDepots,
             same_kernel \in BOOLEAN, same_depot \in BOOLEAN,
             tmpls \in TemplateLists :
             Upgrade(kernel, depot, same_kernel, same_depot, tmpls)
    \/ Exit

SpecLocal == Init /\ [][NextLocal]_vars


(***************************************************************************)
(* Properties.                                                             *)
(***************************************************************************)
\* a <= b on Python strings
StrLeq(a, b) == a = b \/ StrLess(a, b)

\* the identifiers of the catalog with the name requested
EntriesOfName == {i \in DOMAIN catalog : i.name = name}

\* the depots offering identifier i in the catalog
Hosts(i) == DepotNamesOf(catalog[i])

\* a run of download that has got to the prompt or to its end
DownloadRan == command = "download" /\ pc \in {"prompt", "done"}

\* a run of new or upgrade that has ended
LocalRan == command \in {"new", "upgrade"} /\ pc = "done"

\* the only call made is the download of identifier id from depot
DownloadedFrom(id, depot) ==
    calls = <<[op |-> "download", identifier |-> id, depot |-> depot]>>

\* the listing is consulted: version is latest or --no-check is not given
ListingChecked == version = "latest" \/ ~args.no_check

\* C1: with depot auto, a kernel identifier offered by several depots, one of
\* them purdueros-mainline, is selected on purdueros-mainline without a prompt
\* and is downloaded from it.
C1_MainlineDownloaded ==
    (/\ command = "download" /\ pc = "done"
     /\ args.depot = "auto" /\ name = "kernel"
     /\ identifier \in DOMAIN catalog
     /\ Cardinality(Hosts(identifier)) > 1
     /\ Mainline \in Hosts(identifier))
    => /\ prompt = None
       /\ descriptor = [kind |-> "TemplateDescriptor", depot |-> Mainline]
       /\ DownloadedFrom(identifier, Mainline)

\* C2: with version latest and depot auto, the identifier resolved is the one
\* of the greatest version among the catalog entries of the name, and when one
\* depot alone offers it, it is downloaded from that depot without a prompt.
C2_LatestAutoResolvesMaximum ==
    (DownloadRan /\ version = "latest" /\ args.depot = "auto"
     /\ EntriesOfName # {})
    => /\ identifier \in EntriesOfName
       /\ \A i \in EntriesOfName : StrLeq(i.version, identifier.version)
       /\ Cardinality(Hosts(identifier)) = 1
          => /\ prompt = None
             /\ pc = "done"
             /\ \E d \in Hosts(identifier) : DownloadedFrom(identifier, d)

W_C2 ==
    /\ DownloadRan /\ version = "latest" /\ args.depot = "auto"
    /\ Cardinality(EntriesOfName) = 2
    /\ Cardinality(Hosts(identifier)) = 1
    /\ outcome = "Downloaded"

\* C3 as stated: with version latest and an explicit depot D, the version
\* resolved is the greatest of the name over all depots, and if D does not
\* offer it the run ends in DepotMismatch.
C3_LatestIsGlobal ==
    (DownloadRan /\ version = "latest" /\ args.depot # "auto"
     /\ EntriesOfName # {})
    => LET g == CHOOSE i \in EntriesOfName :
                    \A j \in EntriesOfName : StrLeq(j.version, i.version)
       IN  IF args.depot \in Hosts(g)
           THEN identifier = g
           ELSE outcome = "DepotMismatch" /\ calls = <<>>

\* C3 amended: with version latest and an explicit depot D, the depot filter
\* comes first: the version resolved is the greatest of the name among the
\* entries D offers, and it is downloaded from D; the run ends in
\* DepotMismatch only when D offers no entry of the name.
C3_LatestIsPerDepot ==
    (DownloadRan /\ version = "latest" /\ args.depot # "auto"
     /\ EntriesOfName # {})
    => LET onD == {i \in EntriesOfName : args.depot \in Hosts(i)}
       IN  IF onD = {}
           THEN outcome = "DepotMismatch" /\ calls = <<>> /\ identifier = None
           ELSE /\ identifier \in onD
                /\ \A i \in onD : StrLeq(i.version, identifier.version)
                /\ DownloadedFrom(identifier, args.depot)

W_C3 ==
    /\ DownloadRan /\ version = "latest" /\ args.depot # "auto"
    /\ outcome = "Downloaded"
    /\ \E i \in EntriesOfName : StrLess(identifier.version, i.version)

\* C4 as stated: with an explicit depot D, if no catalog entry of the name is
\* offered by D the run ends in DepotMismatch without a download, and every
\* download made is from D.
C4_NoHostMeansMismatch ==
    (DownloadRan /\ args.depot # "auto")
    => /\ (\A i \in EntriesOfName : args.depot \notin Hosts(i))
          => outcome = "DepotMismatch" /\ calls = <<>>
       /\ \A k \in 1..Len(calls) : calls[k].depot = args.depot

\* C4 amended: with an explicit depot D, when the listing is consulted and has
\* entries of the name but none offered by D, the run ends in DepotMismatch
\* without a download; when it has no entry of the name the run ends in
\* NotFound without a download; with an explicit version and --no-check the
\* listing is not consulted and neither check is made; and every download
\* made is from D.
C4_ExplicitDepotIsKept ==
    (DownloadRan /\ args.depot # "auto")
    => /\ (/\ ListingChecked
           /\ EntriesOfName # {}
           /\ \A i \in EntriesOfName : args.depot \notin Hosts(i))
          => outcome = "DepotMismatch" /\ calls = <<>>
       /\ (ListingChecked /\ EntriesOfName = {})
          => outcome = "NotFound" /\ calls = <<>>
       /\ ~ListingChecked => outcome \notin {"DepotMismatch", "NotFound"}
       /\ \A k \in 1..Len(calls) : calls[k].depot = args.depot

W_C4 ==
    /\ DownloadRan /\ args.depot # "auto"
    /\ EntriesOfName # {}
    /\ outcome = "DepotMismatch"

\* C5: with depot auto, when two or more depots offer the identifier and the
\* preference for purdueros-mainline does not apply, no depot is picked before
\* the prompt; the prompt lists exactly the candidate depots, each once, in
\* ascending order of name, and offers the first name as the default.
C5_PromptListsCandidates ==
    (/\ DownloadRan /\ args.depot = "auto"
     /\ identifier \in DOMAIN catalog
     /\ Cardinality(Hosts(identifier)) >= 2
     /\ ~(name = "kernel" /\ Mainline \in Hosts(identifier)))
    => /\ prompt # None
       /\ pc = "prompt" => descriptor = None /\ calls = <<>>
       /\ Len(options_table) = Cardinality(Hosts(identifier))
       /\ {options_table[k][2] : k \in 1..Len(options_table)} = Hosts(identifier)
       /\ \A k \in 1..(Len(options_table) - 1) :
             StrLess(options_table[k][2], options_table[k + 1][2])
       /\ \A d \in Hosts(identifier) : StrLeq(prompt.default, d)
       /\ prompt.default \in Hosts(identifier)

W_C5 ==
    /\ pc = "prompt" /\ args.depot = "auto"
    /\ Len(descriptors) = 3
    /\ StrLess(descriptors[2].depot, descriptors[1].depot)

\* C6: in new and upgrade, kernel latest resolves to the greatest version among
\* the local templates.
C6_LocalLatestIsMaximum ==
    (LocalRan /\ args.kernel = "latest" /\ args.kernel_is_literal
     /\ templates # <<>>)
    => /\ \E k \in 1..Len(templates) : templates[k].version = kernel_version
       /\ \A k \in 1..Len(templates) :
             StrLeq(templates[k].version, kernel_version)

\* C7: in new and upgrade, an empty local template list ends the run in
\* NoLocalTemplate, not NotFound, and no project is created or upgraded.
C7_EmptyLocalCatalog ==
    (LocalRan /\ templates = <<>>)
    => /\ outcome = "NoLocalTemplate"
       /\ outcome # "NotFound"
       /\ template = None
       /\ calls = <<>>

W_C7 ==
    /\ LocalRan /\ templates = <<>>
    /\ args.kernel # "latest" /\ args.depot # "auto"
    /\ outcome = "NoLocalTemplate"

\* C8: rm-depot and add-depot of purdueros-mainline are rejected and leave the
\* registry as it is; a registered purdueros-mainline stays registered,
\* unmodified and unique through every add-depot and rm-depot.
C8_MainlineProtected ==
    [][(\E d \in registry : d.name = Mainline)
       => /\ {d \in registry' : d.name = Mainline}
             = {d \in registry : d.name = Mainline}
          /\ Cardinality({d \in registry' : d.name = Mainline}) = 1
          /\ (/\ pc = "idle" /\ command' \in {"rm-depot", "add-depot"}
              /\ args'.name = Mainline)
             => outcome' = "BadParameter" /\ registry' = registry]_vars

W_C8 ==
    /\ pc = "done" /\ command = "add-depot" /\ args.name = Mainline
    /\ outcome = "BadParameter"
    /\ \E d \in registry : d.name = Mainline

\* C9: the descriptor selected by an index answer is the one whose depot name
\* the table shows beside that index, and the one selected by a name answer is
\* the one of that depot.
C9_AnswerSelectsDisplayed ==
    (command = "download" /\ pc = "done" /\ result # None)
    => IF result.answer \in IndexChoices(options_table)
       THEN \E k \in 1..Len(options_table) :
               /\ StrOfInt[options_table[k][1]] = result.answer
               /\ descriptor.depot = options_table[k][2]
       ELSE descriptor.depot = result.answer

\* C10: in new and upgrade with depot auto, when local templates match the
\* kernel version the depot is purdueros-mainline if it has that version and
\* otherwise the depot of the first matching template, and the project is
\* created or upgraded from a template of that version on that depot.
C10_LocalAutoDepot ==
    (/\ LocalRan /\ args.depot = "auto"
     /\ WithVersion(templates, kernel_version) # <<>>)
    => LET matching == WithVersion(templates, kernel_version)
           chosen == IF \E k \in 1..Len(matching) :
                           matching[k].depot_registrar = Mainline
                     THEN Mainline
                     ELSE matching[1].depot_registrar
       IN  /\ depot_registrar = chosen
           /\ template # None
           /\ template.version = kernel_version
           /\ template.depot_registrar = chosen
           /\ Len(calls) = 1
           /\ calls[1].identifier = template

====
